---- MODULE Spec2Model ----
(***************************************************************************)
(* Model of VideoAreaSelector (js/lib/video-area-selector.js).             *)
(*                                                                         *)
(* The state is the engine's fields, the inline style of the selection box *)
(* and of the overlay, the document-level listeners, and the part of the   *)
(* video element the engine reads (src, videoWidth/videoHeight,            *)
(* clientWidth/clientHeight).  The 'playback-mode' class and the colours   *)
(* only change how the box is painted and are left out.  Pointer positions *)
(* are given relative to the video box (e.clientX - rect.left) on whole    *)
(* CSS pixels, and the bounding box of the video has the size              *)
(* clientWidth x clientHeight.  Arithmetic                                 *)
(* on coordinates is exact: Math.round(p/q) is computed on the fraction.   *)
(* Relative coordinates are kept in millionths (6 decimals).  The overlay's *)
(* 'mouseleave' listener only calls preventDefault and is not an action.   *)
(* The document is the child list of the video's parent and that of the    *)
(* wrapper the constructor puts around the video.                          *)
(*                                                                         *)
(* The application around the engine (the page script, ThemeHandler and    *)
(* TemplateManager) is modelled by three more variables; in the            *)
(* specifications of the engine alone they keep their initial value.       *)
(***************************************************************************)
EXTENDS Integers, Sequences, FiniteSets, TLC

VARIABLES
    enabled,              \* this.options.enabled
    overlayDisplay,       \* this.selectionOverlay.style.display
    boxDisplay,           \* this.selectionBox.style.display
    boxStyle,             \* this.selectionBox.style.{left,top,width,height}
    isSelecting, isResizing, activeHandle,
    startX, startY,
    selectionLeft, selectionTop, selectionWidth, selectionHeight,
    lastMoveEvent,
    docMoveListeners,     \* document 'mousemove' listeners, in registration order
    docMouseUp,           \* document 'mouseup' listener registered
    winResize,            \* window 'resize' listener registered
    metadataListener,     \* 'loadedmetadata' listener registered on the video
    timerPending,         \* the 100 ms fallback timer is armed
    attached,             \* the wrapper is in the document, the video inside it
    parentChildren,       \* child nodes of the video's original parent, in order
    wrapperChildren,      \* child nodes of this.videoWrapper, in order
    originalChildren,     \* parentChildren as they were before construction
    createdElements,      \* the elements made by document.createElement
    elementListeners,     \* the overlay's and the handles' listeners are registered
    thrown,               \* the constructor threw: there is no engine
    originalVideoWidth, originalVideoHeight,
    hasSrc,               \* videoElement.src is non-empty
    videoWidth, videoHeight,     \* videoElement.videoWidth / videoHeight
    nativeWidth, nativeHeight,   \* intrinsic size of the video once its metadata is loaded
    clientWidth, clientHeight,   \* displayed size of the video element
    layouts,              \* the displayed sizes the page layout gives the video element
    lastChange,           \* payload of the last onChange invocation, <<>> before the first
    changes,              \* number of onChange invocations made by the last event or call
    themeHandler,         \* ThemeHandler: localStorage entry, data-theme, toggle, system scheme
    templateManager,      \* TemplateManager: templates, form inputs, edit index, localStorage
    application           \* the page script: isSelectionMode, videoAreaSelector, file loads

engineVars ==
        << enabled, overlayDisplay, boxDisplay, boxStyle,
           isSelecting, isResizing, activeHandle, startX, startY,
           selectionLeft, selectionTop, selectionWidth, selectionHeight,
           lastMoveEvent, docMoveListeners, docMouseUp, winResize,
           metadataListener, timerPending, attached,
           parentChildren, wrapperChildren, originalChildren,
           createdElements, elementListeners, thrown,
           originalVideoWidth, originalVideoHeight, hasSrc,
           videoWidth, videoHeight, nativeWidth, nativeHeight,
           clientWidth, clientHeight, layouts, lastChange, changes >>
applicationVars == << themeHandler, templateManager, application >>
vars == << engineVars, applicationVars >>

(***************************************************************************)
(* Bounds of the model.                                                    *)
(***************************************************************************)
MaxNative == 3        \* the small frames have a native size up to MaxNative x MaxNative
MaxSiblings == 2      \* the video has up to MaxSiblings siblings before and after it
MaxDisplay == 2       \* ... displayed at up to MaxDisplay x MaxDisplay
PointerMargin == 1    \* how far outside the video box the pointer goes
MaxLoads == 2         \* the user chooses a video file up to MaxLoads times
MaxTemplates == 3     \* the list holds up to MaxTemplates templates
MaxStored == 2        \* localStorage holds up to MaxStored templates when the page loads

Million == 1000000

Min(a, b) == IF a < b THEN a ELSE b
Max(a, b) == IF a > b THEN a ELSE b
Abs(a) == IF a < 0 THEN 0 - a ELSE a

\* Math.round(p / q) for q > 0: nearest integer, halves towards +Infinity
MathRound(p, q) == (2 * p + q) \div (2 * q)

\* (p / q) cut, not rounded, to 6 decimals
ToFixed6Truncated(p, q) ==
    LET m == Abs(p)
        r == m % q
        first3 == (r * 1000) \div q
        next3 == (((r * 1000) % q) * 1000) \div q
        cut == (m \div q) * Million + first3 * 1000 + next3
    IN IF p < 0 THEN 0 - cut ELSE cut

\* +(p / q).toFixed(6), in millionths: the magnitude is rounded to the nearest
\* millionth, halves up, and the sign is put back.  The seven decimals of the
\* fraction are taken four and three at a time to stay within 32 bits.
ToFixed6(p, q) ==
    LET m == Abs(p)
        r == m % q
        first4 == (r * 10000) \div q
        next3 == (((r * 10000) % q) * 1000) \div q
        tenMillionths == (m \div q) * (10 * Million) + first4 * 1000 + next3
        rounded == (tenMillionths + 5) \div 10
    IN IF p < 0 THEN 0 - rounded ELSE rounded

\* n + 'px' as an inline style value; <<>> is the empty (never assigned) value
Px(n) == << n >>
\* parseInt(style) || 0
ParseIntOr0(style) == IF style = << >> THEN 0 ELSE style[1]

NoStyle == [left |-> << >>, top |-> << >>, width |-> << >>, height |-> << >>]
BoxPx(l, t, w, h) == [left |-> Px(l), top |-> Px(t), width |-> Px(w), height |-> Px(h)]

Handles == {"NW", "NE", "SW", "SE"}

(***************************************************************************)
(* The engine and the video element as one record, so that a handler is a  *)
(* function from records to records and an event that runs several         *)
(* handlers composes them.                                                 *)
(***************************************************************************)
S == [ enabled |-> enabled, overlayDisplay |-> overlayDisplay,
       boxDisplay |-> boxDisplay, boxStyle |-> boxStyle,
       isSelecting |-> isSelecting, isResizing |-> isResizing,
       activeHandle |-> activeHandle, startX |-> startX, startY |-> startY,
       selectionLeft |-> selectionLeft, selectionTop |-> selectionTop,
       selectionWidth |-> selectionWidth, selectionHeight |-> selectionHeight,
       lastMoveEvent |-> lastMoveEvent, docMoveListeners |-> docMoveListeners,
       docMouseUp |-> docMouseUp, winResize |-> winResize,
       metadataListener |-> metadataListener, timerPending |-> timerPending,
       attached |-> attached,
       parentChildren |-> parentChildren, wrapperChildren |-> wrapperChildren,
       originalChildren |-> originalChildren,
       createdElements |-> createdElements,
       elementListeners |-> elementListeners, thrown |-> thrown,
       originalVideoWidth |-> originalVideoWidth,
       originalVideoHeight |-> originalVideoHeight, hasSrc |-> hasSrc,
       videoWidth |-> videoWidth, videoHeight |-> videoHeight,
       nativeWidth |-> nativeWidth, nativeHeight |-> nativeHeight,
       clientWidth |-> clientWidth, clientHeight |-> clientHeight,
       layouts |-> layouts,
       lastChange |-> lastChange, changes |-> changes ]

ApplyEngine(s) ==
    /\ enabled' = s.enabled
    /\ overlayDisplay' = s.overlayDisplay
    /\ boxDisplay' = s.boxDisplay
    /\ boxStyle' = s.boxStyle
    /\ isSelecting' = s.isSelecting
    /\ isResizing' = s.isResizing
    /\ activeHandle' = s.activeHandle
    /\ startX' = s.startX
    /\ startY' = s.startY
    /\ selectionLeft' = s.selectionLeft
    /\ selectionTop' = s.selectionTop
    /\ selectionWidth' = s.selectionWidth
    /\ selectionHeight' = s.selectionHeight
    /\ lastMoveEvent' = s.lastMoveEvent
    /\ docMoveListeners' = s.docMoveListeners
    /\ docMouseUp' = s.docMouseUp
    /\ winResize' = s.winResize
    /\ metadataListener' = s.metadataListener
    /\ timerPending' = s.timerPending
    /\ attached' = s.attached
    /\ parentChildren' = s.parentChildren
    /\ wrapperChildren' = s.wrapperChildren
    /\ originalChildren' = s.originalChildren
    /\ createdElements' = s.createdElements
    /\ elementListeners' = s.elementListeners
    /\ thrown' = s.thrown
    /\ originalVideoWidth' = s.originalVideoWidth
    /\ originalVideoHeight' = s.originalVideoHeight
    /\ hasSrc' = s.hasSrc
    /\ videoWidth' = s.videoWidth
    /\ videoHeight' = s.videoHeight
    /\ nativeWidth' = s.nativeWidth
    /\ nativeHeight' = s.nativeHeight
    /\ clientWidth' = s.clientWidth
    /\ clientHeight' = s.clientHeight
    /\ layouts' = s.layouts
    /\ lastChange' = s.lastChange
    /\ changes' = s.changes

\* the engine's variables become the record s; the application is not involved
Apply(s) == ApplyEngine(s) /\ UNCHANGED applicationVars

\* a new event or API call starts: no onChange invocation counted yet
Begin(s) == [s EXCEPT !.changes = 0]

\* document.addEventListener('mousemove', h): no effect when h is already registered
AddListener(ls, h) == IF \E i \in 1..Len(ls) : ls[i] = h THEN ls ELSE Append(ls, h)
\* document.removeEventListener('mousemove', h)
RemoveListener(ls, h) == SelectSeq(ls, LAMBDA x : x # h)
HasListener(ls, h) == \E i \in 1..Len(ls) : ls[i] = h

(***************************************************************************)
(* The part of the document the engine touches: the child list of the      *)
(* video's parent and the child list of the wrapper.  A node is a pair of  *)
(* a kind and a number; the selection box stands for itself and its four   *)
(* handles, which are its children from _createElements on.                *)
(***************************************************************************)
VideoNode == << "video", 0 >>
WrapperNode == << "wrapper", 0 >>
OverlayNode == << "overlay", 0 >>
BoxNode == << "box", 0 >>
Sibling(k) == << "sibling", k >>
EngineElements == { WrapperNode, OverlayNode, BoxNode }

Contains(children, node) == \E i \in 1..Len(children) : children[i] = node
IndexOf(children, node) == CHOOSE i \in 1..Len(children) : children[i] = node
\* parent.removeChild(node)
RemoveChild(children, node) == SelectSeq(children, LAMBDA n : n # node)
\* parent.appendChild(node), for a node that is not yet a child of parent
AppendChild(children, node) == Append(RemoveChild(children, node), node)
\* parent.insertBefore(node, ref), ref being a child of parent
InsertBefore(children, node, ref) ==
    LET rest == RemoveChild(children, node)
        i == IndexOf(rest, ref)
    IN SubSeq(rest, 1, i - 1) \o << node >> \o SubSeq(rest, i, Len(rest))
\* the node is in the document: under the parent, or under a wrapper that is
InDocument(s, node) ==
    \/ Contains(s.parentChildren, node)
    \/ Contains(s.parentChildren, WrapperNode) /\ Contains(s.wrapperChildren, node)

\* _createElements on the video found among the children of its parent
createElements(s) ==
    LET wrapped == InsertBefore(s.parentChildren, WrapperNode, VideoNode)
    IN [s EXCEPT !.createdElements = EngineElements,
                 !.parentChildren = RemoveChild(wrapped, VideoNode),
                 !.wrapperChildren = << VideoNode, OverlayNode, BoxNode >>,
                 !.attached = TRUE]

\* the "Remove DOM elements" step of destroy
removeElements(s) ==
    IF Contains(s.parentChildren, WrapperNode)
    THEN [s EXCEPT !.parentChildren =
                      RemoveChild(InsertBefore(s.parentChildren, VideoNode, WrapperNode),
                                  WrapperNode),
                   !.wrapperChildren = RemoveChild(s.wrapperChildren, VideoNode),
                   !.attached = FALSE]
    ELSE s

(***************************************************************************)
(* Geometry: _updateCoordinates, getSelection, setSelection                *)
(***************************************************************************)
\* selectionData with right/bottom as the far-edge coordinates, not the margins
selectionDataFarEdge(originalX, originalY, originalW, originalH, ow, oh) ==
    LET originalRight == originalX + originalW
        originalBottom == originalY + originalH
    IN [ absolute |-> [ left |-> originalX, top |-> originalY,
                        width |-> originalW, height |-> originalH,
                        right |-> originalRight, bottom |-> originalBottom ],
         relative |-> [ left |-> ToFixed6(originalX, ow),
                        top |-> ToFixed6(originalY, oh),
                        width |-> ToFixed6(originalW, ow),
                        height |-> ToFixed6(originalH, oh),
                        right |-> ToFixed6(originalRight, ow),
                        bottom |-> ToFixed6(originalBottom, oh) ],
         video |-> [ width |-> ow, height |-> oh ] ]

\* the selectionData object built from the four rounded native coordinates
selectionData(originalX, originalY, originalW, originalH, ow, oh) ==
    LET originalRight == ow - (originalX + originalW)
        originalBottom == oh - (originalY + originalH)
    IN [ absolute |-> [ left |-> originalX, top |-> originalY,
                        width |-> originalW, height |-> originalH,
                        right |-> originalRight, bottom |-> originalBottom ],
         relative |-> [ left |-> ToFixed6(originalX, ow),
                        top |-> ToFixed6(originalY, oh),
                        width |-> ToFixed6(originalW, ow),
                        height |-> ToFixed6(originalH, oh),
                        right |-> ToFixed6(originalRight, ow),
                        bottom |-> ToFixed6(originalBottom, oh) ],
         video |-> [ width |-> ow, height |-> oh ] ]

\* constrainSelection that clamps the position but not the size
constrainPositionOnly(x, y, width, height, dw, dh) ==
    [ x |-> Min(Max(0, x), dw), y |-> Min(Max(0, y), dh),
      width |-> width, height |-> height ]

\* the "Constrain selection" step of _updateCoordinates
constrainSelection(x, y, width, height, dw, dh) ==
    LET constrainedX == Min(Max(0, x), dw)
        constrainedY == Min(Max(0, y), dh)
    IN [ x |-> constrainedX, y |-> constrainedY,
         width |-> Min(width, dw - constrainedX),
         height |-> Min(height, dh - constrainedY) ]

\* the payload _updateCoordinates publishes for (x, y, width, height)
toNative(x, y, width, height, ow, oh, dw, dh) ==
    LET c == constrainSelection(x, y, width, height, dw, dh)
    IN selectionData(MathRound(c.x * ow, dw), MathRound(c.y * oh, dh),
                     MathRound(c.width * ow, dw), MathRound(c.height * oh, dh),
                     ow, oh)

\* _updateCoordinates that reports "no data" when the transform is unavailable
updateCoordinatesOrNone(s, x, y, width, height) ==
    LET s1 == IF (s.originalVideoWidth = 0 \/ s.originalVideoHeight = 0)
                 /\ s.videoWidth > 0 /\ s.videoHeight > 0
              THEN [s EXCEPT !.originalVideoWidth = s.videoWidth,
                             !.originalVideoHeight = s.videoHeight]
              ELSE s
    IN IF /\ s1.hasSrc
          /\ s1.originalVideoWidth # 0 /\ s1.originalVideoHeight # 0
          /\ s1.clientWidth > 0 /\ s1.clientHeight > 0
       THEN [s1 EXCEPT !.lastChange =
                         << toNative(x, y, width, height,
                                     s1.originalVideoWidth, s1.originalVideoHeight,
                                     s1.clientWidth, s1.clientHeight) >>,
                       !.changes = @ + 1]
       ELSE [s1 EXCEPT !.lastChange = << >>, !.changes = @ + 1]

updateCoordinates(s, x, y, width, height) ==
    LET s1 == IF (s.originalVideoWidth = 0 \/ s.originalVideoHeight = 0)
                 /\ s.videoWidth > 0 /\ s.videoHeight > 0
              THEN [s EXCEPT !.originalVideoWidth = s.videoWidth,
                             !.originalVideoHeight = s.videoHeight]
              ELSE s
    IN IF /\ s1.hasSrc
          /\ s1.originalVideoWidth # 0 /\ s1.originalVideoHeight # 0
          /\ s1.clientWidth > 0 /\ s1.clientHeight > 0
       THEN [s1 EXCEPT !.lastChange =
                         << toNative(x, y, width, height,
                                     s1.originalVideoWidth, s1.originalVideoHeight,
                                     s1.clientWidth, s1.clientHeight) >>,
                       !.changes = @ + 1]
       ELSE s1

\* getSelection() without the test of the box's display style
getSelectionAnyDisplay(s) ==
    LET x == ParseIntOr0(s.boxStyle.left)
        y == ParseIntOr0(s.boxStyle.top)
        width == ParseIntOr0(s.boxStyle.width)
        height == ParseIntOr0(s.boxStyle.height)
        refresh == s.originalVideoWidth = 0 \/ s.originalVideoHeight = 0
        ow == IF refresh THEN s.videoWidth ELSE s.originalVideoWidth
        oh == IF refresh THEN s.videoHeight ELSE s.originalVideoHeight
    IN IF s.hasSrc /\ ow # 0 /\ oh # 0 /\ s.clientWidth > 0 /\ s.clientHeight > 0
       THEN << selectionData(MathRound(x * ow, s.clientWidth),
                             MathRound(y * oh, s.clientHeight),
                             MathRound(width * ow, s.clientWidth),
                             MathRound(height * oh, s.clientHeight),
                             ow, oh) >>
       ELSE << >>

\* the value getSelection() returns in state s: <<>> for null, <<data>> otherwise
getSelectionResult(s) ==
    IF s.boxDisplay # "block" THEN << >>
    ELSE LET x == ParseIntOr0(s.boxStyle.left)
             y == ParseIntOr0(s.boxStyle.top)
             width == ParseIntOr0(s.boxStyle.width)
             height == ParseIntOr0(s.boxStyle.height)
             refresh == s.originalVideoWidth = 0 \/ s.originalVideoHeight = 0
             ow == IF refresh THEN s.videoWidth ELSE s.originalVideoWidth
             oh == IF refresh THEN s.videoHeight ELSE s.originalVideoHeight
         IN IF s.hasSrc /\ ow # 0 /\ oh # 0 /\ s.clientWidth > 0 /\ s.clientHeight > 0
            THEN << selectionData(MathRound(x * ow, s.clientWidth),
                                  MathRound(y * oh, s.clientHeight),
                                  MathRound(width * ow, s.clientWidth),
                                  MathRound(height * oh, s.clientHeight),
                                  ow, oh) >>
            ELSE << >>

\* the state after getSelection(): the native size is re-read when it was unknown
getSelection(s) ==
    IF s.boxDisplay # "block" THEN s
    ELSE IF s.originalVideoWidth = 0 \/ s.originalVideoHeight = 0
         THEN [s EXCEPT !.originalVideoWidth = s.videoWidth,
                        !.originalVideoHeight = s.videoHeight]
         ELSE s

\* setSelection without the test of the displayed size
setSelectionAnyDisplay(s, left, top, width, height) ==
    IF s.hasSrc /\ s.originalVideoWidth # 0 /\ s.originalVideoHeight # 0
    THEN LET displayLeft == MathRound(left * s.clientWidth, s.originalVideoWidth)
             displayTop == MathRound(top * s.clientHeight, s.originalVideoHeight)
             displayWidth == MathRound(width * s.clientWidth, s.originalVideoWidth)
             displayHeight == MathRound(height * s.clientHeight, s.originalVideoHeight)
         IN updateCoordinates(
               [s EXCEPT !.boxStyle = BoxPx(displayLeft, displayTop,
                                            displayWidth, displayHeight),
                         !.boxDisplay = "block",
                         !.selectionLeft = displayLeft,
                         !.selectionTop = displayTop,
                         !.selectionWidth = displayWidth,
                         !.selectionHeight = displayHeight],
               displayLeft, displayTop, displayWidth, displayHeight)
    ELSE s

\* setSelection scaling by native/display, the factor of _updateCoordinates
setSelectionNativeScale(s, left, top, width, height) ==
    IF /\ s.hasSrc
       /\ s.originalVideoWidth # 0 /\ s.originalVideoHeight # 0
       /\ s.clientWidth > 0 /\ s.clientHeight > 0
    THEN LET displayLeft == MathRound(left * s.originalVideoWidth, s.clientWidth)
             displayTop == MathRound(top * s.originalVideoHeight, s.clientHeight)
             displayWidth == MathRound(width * s.originalVideoWidth, s.clientWidth)
             displayHeight == MathRound(height * s.originalVideoHeight, s.clientHeight)
         IN updateCoordinates(
               [s EXCEPT !.boxStyle = BoxPx(displayLeft, displayTop,
                                            displayWidth, displayHeight),
                         !.boxDisplay = "block",
                         !.selectionLeft = displayLeft,
                         !.selectionTop = displayTop,
                         !.selectionWidth = displayWidth,
                         !.selectionHeight = displayHeight],
               displayLeft, displayTop, displayWidth, displayHeight)
    ELSE s

setSelection(s, left, top, width, height) ==
    IF /\ s.hasSrc
       /\ s.originalVideoWidth # 0 /\ s.originalVideoHeight # 0
       /\ s.clientWidth > 0 /\ s.clientHeight > 0
    THEN LET displayLeft == MathRound(left * s.clientWidth, s.originalVideoWidth)
             displayTop == MathRound(top * s.clientHeight, s.originalVideoHeight)
             displayWidth == MathRound(width * s.clientWidth, s.originalVideoWidth)
             displayHeight == MathRound(height * s.clientHeight, s.originalVideoHeight)
         IN updateCoordinates(
               [s EXCEPT !.boxStyle = BoxPx(displayLeft, displayTop,
                                            displayWidth, displayHeight),
                         !.boxDisplay = "block",
                         !.selectionLeft = displayLeft,
                         !.selectionTop = displayTop,
                         !.selectionWidth = displayWidth,
                         !.selectionHeight = displayHeight],
               displayLeft, displayTop, displayWidth, displayHeight)
    ELSE s

\* clearSelection that publishes the hidden rectangle
clearSelectionPublishing(s) ==
    updateCoordinates([s EXCEPT !.boxDisplay = "none"],
                      s.selectionLeft, s.selectionTop,
                      s.selectionWidth, s.selectionHeight)

clearSelection(s) == [s EXCEPT !.boxDisplay = "none"]

(***************************************************************************)
(* Handlers of the create gesture                                          *)
(***************************************************************************)
\* _handleSelectionStart for which the borders of the box are outside the box
handleSelectionStartOpenBox(s, mouseX, mouseY) ==
    IF ~s.hasSrc \/ ~s.enabled THEN s
    ELSE IF mouseX < 0 \/ mouseX > s.clientWidth \/ mouseY < 0 \/ mouseY > s.clientHeight
    THEN s
    ELSE LET selBoxLeft == ParseIntOr0(s.boxStyle.left)
             selBoxTop == ParseIntOr0(s.boxStyle.top)
             selBoxWidth == ParseIntOr0(s.boxStyle.width)
             selBoxHeight == ParseIntOr0(s.boxStyle.height)
             insideExistingSelection ==
                 /\ s.boxDisplay = "block"
                 /\ mouseX > selBoxLeft
                 /\ mouseX < selBoxLeft + selBoxWidth
                 /\ mouseY > selBoxTop
                 /\ mouseY < selBoxTop + selBoxHeight
         IN IF insideExistingSelection THEN s
            ELSE LET s1 == updateCoordinates(
                              [s EXCEPT !.isSelecting = TRUE,
                                        !.startX = mouseX,
                                        !.startY = mouseY,
                                        !.boxStyle = BoxPx(mouseX, mouseY, 1, 1),
                                        !.boxDisplay = "block",
                                        !.selectionLeft = mouseX,
                                        !.selectionTop = mouseY,
                                        !.selectionWidth = 1,
                                        !.selectionHeight = 1],
                              mouseX, mouseY, 1, 1)
                 IN [s1 EXCEPT !.docMoveListeners = AddListener(@, "select")]

handleSelectionStart(s, mouseX, mouseY) ==
    IF ~s.hasSrc \/ ~s.enabled THEN s
    ELSE IF mouseX < 0 \/ mouseX > s.clientWidth \/ mouseY < 0 \/ mouseY > s.clientHeight
    THEN s
    ELSE LET selBoxLeft == ParseIntOr0(s.boxStyle.left)
             selBoxTop == ParseIntOr0(s.boxStyle.top)
             selBoxWidth == ParseIntOr0(s.boxStyle.width)
             selBoxHeight == ParseIntOr0(s.boxStyle.height)
             insideExistingSelection ==
                 /\ s.boxDisplay = "block"
                 /\ mouseX >= selBoxLeft
                 /\ mouseX <= selBoxLeft + selBoxWidth
                 /\ mouseY >= selBoxTop
                 /\ mouseY <= selBoxTop + selBoxHeight
         IN IF insideExistingSelection THEN s
            ELSE LET s1 == updateCoordinates(
                              [s EXCEPT !.isSelecting = TRUE,
                                        !.startX = mouseX,
                                        !.startY = mouseY,
                                        !.boxStyle = BoxPx(mouseX, mouseY, 1, 1),
                                        !.boxDisplay = "block",
                                        !.selectionLeft = mouseX,
                                        !.selectionTop = mouseY,
                                        !.selectionWidth = 1,
                                        !.selectionHeight = 1],
                              mouseX, mouseY, 1, 1)
                 IN [s1 EXCEPT !.docMoveListeners = AddListener(@, "select")]

\* the rectangle between the anchor and the pointer, not clamped
dragBoxUnclamped(s, currentX, currentY) ==
    [ left |-> Min(s.startX, currentX),
      top |-> Min(s.startY, currentY),
      width |-> Max(1, Abs(currentX - s.startX)),
      height |-> Max(1, Abs(currentY - s.startY)) ]

\* the rectangle between the anchor and the pointer clamped to the video box
dragBox(s, currentX, currentY) ==
    LET constrainedX == Min(Max(0, currentX), s.clientWidth)
        constrainedY == Min(Max(0, currentY), s.clientHeight)
    IN [ left |-> Min(s.startX, constrainedX),
         top |-> Min(s.startY, constrainedY),
         width |-> Max(1, Abs(constrainedX - s.startX)),
         height |-> Max(1, Abs(constrainedY - s.startY)) ]

handleSelectionMove(s, currentX, currentY) ==
    IF s.isSelecting /\ s.hasSrc /\ s.enabled
    THEN LET b == dragBox(s, currentX, currentY)
         IN updateCoordinates(
               [s EXCEPT !.boxStyle = BoxPx(b.left, b.top, b.width, b.height),
                         !.lastMoveEvent = << [clientX |-> currentX, clientY |-> currentY] >>,
                         !.selectionLeft = b.left,
                         !.selectionTop = b.top,
                         !.selectionWidth = b.width,
                         !.selectionHeight = b.height],
               b.left, b.top, b.width, b.height)
    ELSE s

\* _documentMouseMoveHandler without the test of options.enabled
documentMouseMoveHandlerAnyMode(s, currentX, currentY) ==
    IF s.isSelecting /\ s.hasSrc
    THEN LET b == dragBox(s, currentX, currentY)
         IN updateCoordinates(
               [s EXCEPT !.boxStyle = BoxPx(b.left, b.top, b.width, b.height),
                         !.selectionLeft = b.left,
                         !.selectionTop = b.top,
                         !.selectionWidth = b.width,
                         !.selectionHeight = b.height,
                         !.lastMoveEvent = << [clientX |-> currentX, clientY |-> currentY] >>],
               b.left, b.top, b.width, b.height)
    ELSE s

documentMouseMoveHandler(s, currentX, currentY) ==
    IF s.isSelecting /\ s.hasSrc /\ s.enabled
    THEN LET b == dragBox(s, currentX, currentY)
         IN updateCoordinates(
               [s EXCEPT !.boxStyle = BoxPx(b.left, b.top, b.width, b.height),
                         !.selectionLeft = b.left,
                         !.selectionTop = b.top,
                         !.selectionWidth = b.width,
                         !.selectionHeight = b.height,
                         !.lastMoveEvent = << [clientX |-> currentX, clientY |-> currentY] >>],
               b.left, b.top, b.width, b.height)
    ELSE s

\* the synthetic, non-bubbling 'mousemove' dispatched on the overlay at pointer-up:
\* only the overlay's own listener sees it
replayLastMove(s) ==
    IF s.lastMoveEvent # << >>
    THEN handleSelectionMove(s, s.lastMoveEvent[1].clientX, s.lastMoveEvent[1].clientY)
    ELSE s

\* _handleSelectionEnd that leaves the create-move listener on the document
handleSelectionEndKeepsListener(s) ==
    IF s.isSelecting
    THEN [replayLastMove(s) EXCEPT !.isSelecting = FALSE]
    ELSE s

handleSelectionEnd(s) ==
    IF s.isSelecting
    THEN LET s1 == [s EXCEPT !.docMoveListeners = RemoveListener(@, "select")]
             s2 == replayLastMove(s1)
         IN [s2 EXCEPT !.isSelecting = FALSE]
    ELSE s

(***************************************************************************)
(* Handlers of the resize gesture                                          *)
(***************************************************************************)
handleResizeStart(s, handle) ==
    IF ~s.enabled THEN s
    ELSE [s EXCEPT !.isResizing = TRUE,
                   !.activeHandle = handle,
                   !.selectionLeft = ParseIntOr0(s.boxStyle.left),
                   !.selectionTop = ParseIntOr0(s.boxStyle.top),
                   !.selectionWidth = ParseIntOr0(s.boxStyle.width),
                   !.selectionHeight = ParseIntOr0(s.boxStyle.height),
                   !.docMoveListeners = AddListener(@, "resize")]

\* a resize move without the minimum size
resizeBoxNoMinimum(s, currentX, currentY) ==
    LET constrainedX == Min(Max(0, currentX), s.clientWidth)
        constrainedY == Min(Max(0, currentY), s.clientHeight)
        west == s.activeHandle \in {"NW", "SW"}
        north == s.activeHandle \in {"NW", "NE"}
    IN [ left |-> IF west THEN constrainedX ELSE s.selectionLeft,
         top |-> IF north THEN constrainedY ELSE s.selectionTop,
         width |-> IF west THEN s.selectionLeft + s.selectionWidth - constrainedX
                   ELSE constrainedX - s.selectionLeft,
         height |-> IF north THEN s.selectionTop + s.selectionHeight - constrainedY
                    ELSE constrainedY - s.selectionTop ]

\* a resize move whose minimum size leaves the near edge at the pointer
resizeBoxMinimumAtPointer(s, currentX, currentY) ==
    LET b == resizeBoxNoMinimum(s, currentX, currentY)
    IN [ left |-> b.left, top |-> b.top,
         width |-> Max(1, b.width), height |-> Max(1, b.height) ]

\* the rectangle a resize move computes, minimum size included
resizeBox(s, currentX, currentY) ==
    LET constrainedX == Min(Max(0, currentX), s.clientWidth)
        constrainedY == Min(Max(0, currentY), s.clientHeight)
        h == s.activeHandle
        west == h \in {"NW", "SW"}
        north == h \in {"NW", "NE"}
        east == h \in {"NE", "SE"}
        south == h \in {"SW", "SE"}
        w0 == IF west THEN s.selectionLeft + s.selectionWidth - constrainedX
              ELSE IF east THEN constrainedX - s.selectionLeft
              ELSE s.selectionWidth
        h0 == IF north THEN s.selectionTop + s.selectionHeight - constrainedY
              ELSE IF south THEN constrainedY - s.selectionTop
              ELSE s.selectionHeight
        l0 == IF west THEN constrainedX ELSE s.selectionLeft
        t0 == IF north THEN constrainedY ELSE s.selectionTop
    IN [ left |-> IF w0 < 1 /\ west THEN s.selectionLeft + s.selectionWidth - 1 ELSE l0,
         top |-> IF h0 < 1 /\ north THEN s.selectionTop + s.selectionHeight - 1 ELSE t0,
         width |-> IF w0 < 1 THEN 1 ELSE w0,
         height |-> IF h0 < 1 THEN 1 ELSE h0 ]

documentResizeHandler(s, currentX, currentY) ==
    IF s.isResizing /\ s.hasSrc /\ s.enabled
    THEN LET b == resizeBox(s, currentX, currentY)
         IN updateCoordinates(
               [s EXCEPT !.boxStyle = BoxPx(b.left, b.top, b.width, b.height),
                         !.selectionLeft = b.left,
                         !.selectionTop = b.top,
                         !.selectionWidth = b.width,
                         !.selectionHeight = b.height],
               b.left, b.top, b.width, b.height)
    ELSE s

documentMouseUpHandler(s) ==
    LET s1 == IF s.isResizing
              THEN [s EXCEPT !.docMoveListeners = RemoveListener(@, "resize"),
                             !.isResizing = FALSE,
                             !.activeHandle = "null"]
              ELSE s
    IN IF s1.isSelecting
       THEN replayLastMove([s1 EXCEPT !.isSelecting = FALSE,
                                      !.docMoveListeners = RemoveListener(@, "select")])
       ELSE s1

(***************************************************************************)
(* Public API                                                              *)
(***************************************************************************)
enable(s) == [s EXCEPT !.enabled = TRUE,
                       !.overlayDisplay = "block",
                       !.docMouseUp = TRUE]

\* disable that also hides the selection box
disableHidesBox(s) == [s EXCEPT !.enabled = FALSE,
                                !.overlayDisplay = "none",
                                !.boxDisplay = "none",
                                !.docMouseUp = FALSE]

disable(s) == [s EXCEPT !.enabled = FALSE,
                        !.overlayDisplay = "none",
                        !.docMouseUp = FALSE]

\* destroy that forgets the resize-move listener
destroyKeepsResizeMove(s) ==
    removeElements(
       [s EXCEPT !.winResize = FALSE,
                 !.docMoveListeners = RemoveListener(s.docMoveListeners, "select"),
                 !.docMouseUp = FALSE])

\* destroy that puts the video back as the last child of its parent
destroyAppendsVideo(s) ==
    LET s1 == [s EXCEPT !.winResize = FALSE,
                        !.docMoveListeners = << >>,
                        !.docMouseUp = FALSE]
    IN IF Contains(s1.parentChildren, WrapperNode)
       THEN [s1 EXCEPT !.parentChildren =
                          RemoveChild(AppendChild(s1.parentChildren, VideoNode),
                                      WrapperNode),
                       !.wrapperChildren = RemoveChild(s1.wrapperChildren, VideoNode),
                       !.attached = FALSE]
       ELSE s1

\* destroy that reports the end of the selection to onChange
destroyNotifies(s) ==
    [removeElements([s EXCEPT !.winResize = FALSE,
                              !.docMoveListeners = << >>,
                              !.docMouseUp = FALSE])
        EXCEPT !.lastChange = << >>, !.changes = @ + 1]

destroy(s) == removeElements([s EXCEPT !.winResize = FALSE,
                                       !.docMoveListeners = << >>,
                                       !.docMouseUp = FALSE])

(***************************************************************************)
(* Frames and inputs                                                       *)
(***************************************************************************)
\* the documented scenario: a 1920x1080 video displayed at 960x540
ScenarioNative == << 1920, 1080 >>
ScenarioLayouts == { << 960, 540 >> }

\* a small frame whose box is covered pixel by pixel, at the scales 3/2 and 2
SmallNative == << MaxNative, MaxNative - 1 >>
SmallLayouts == { << MaxDisplay, MaxDisplay - 1 >> }

\* the frame of the life-cycle specification: one small box, or a hidden element
TinyLayouts == { << MaxDisplay - 1, MaxDisplay - 1 >>, << 0, 0 >> }

\* a narrow video shown enlarged in width (4 and 2 times) and reduced in
\* height, on a page whose layout changes the size of the box
NarrowNative == << 1, MaxNative >>
ResizeLayouts == { << 2 * MaxDisplay, MaxDisplay >>, << MaxDisplay, MaxDisplay - 1 >> }

\* pointer positions relative to the video box: every pixel of a small box and
\* PointerMargin around it; in a large box the points of the scenario and a
\* point outside; otherwise the points of the diagonal x = y
PointerPoints ==
    IF layouts = ScenarioLayouts
    THEN { << 100, 50 >>, << 300, 150 >>,
           << clientWidth + PointerMargin, 0 - PointerMargin >> }
    ELSE IF layouts = SmallLayouts
    THEN ((0 - PointerMargin)..(clientWidth + PointerMargin))
            \X ((0 - PointerMargin)..(clientHeight + PointerMargin))
    ELSE { << c, c >> : c \in (0 - PointerMargin)..(clientWidth + PointerMargin) }

Rect(l, t, w, h) == [left |-> l, top |-> t, width |-> w, height |-> h]

\* arguments of setSelection, in native pixels: the whole frame, the whole
\* frame moved by one pixel (it leaves the frame), and the rectangle last
\* published (a caller restoring a saved selection)
SetSelectionArgs ==
    { Rect(0, 0, nativeWidth, nativeHeight), Rect(1, 1, nativeWidth, nativeHeight) }
        \cup (IF lastChange = << >> THEN { }
              ELSE { Rect(lastChange[1].absolute.left, lastChange[1].absolute.top,
                          lastChange[1].absolute.width, lastChange[1].absolute.height) })

\* arguments of setSelection that lie inside the native frame and are at least
\* one native pixel wide and high
InFrameArgs ==
    { a \in [left : 0..nativeWidth, top : 0..nativeHeight,
             width : 1..nativeWidth, height : 1..nativeHeight] :
         /\ a.left + a.width <= nativeWidth
         /\ a.top + a.height <= nativeHeight }

(***************************************************************************)
(* The state after new VideoAreaSelector(options)                          *)
(***************************************************************************)
\* the children of the video's parent in the life-cycle and geometry
\* specifications: one sibling before the video and one after it
DefaultChildren == << Sibling(1), VideoNode, Sibling(2) >>

\* the page and the engine's fields as the constructor sets them (lines 30-43),
\* before it creates an element or registers a listener
page(children, src, loaded, native, display, lays) ==
    [ enabled |-> FALSE, overlayDisplay |-> "",
      boxDisplay |-> "", boxStyle |-> NoStyle,
      isSelecting |-> FALSE, isResizing |-> FALSE, activeHandle |-> "null",
      startX |-> 0, startY |-> 0,
      selectionLeft |-> 0, selectionTop |-> 0,
      selectionWidth |-> 0, selectionHeight |-> 0,
      lastMoveEvent |-> << >>,
      docMoveListeners |-> << >>, docMouseUp |-> FALSE,
      winResize |-> FALSE,
      metadataListener |-> FALSE,
      timerPending |-> FALSE,
      attached |-> FALSE,
      parentChildren |-> children, wrapperChildren |-> << >>,
      originalChildren |-> children,
      createdElements |-> { }, elementListeners |-> FALSE, thrown |-> FALSE,
      originalVideoWidth |-> 0,
      originalVideoHeight |-> 0,
      hasSrc |-> src,
      videoWidth |-> IF loaded THEN native[1] ELSE 0,
      videoHeight |-> IF loaded THEN native[2] ELSE 0,
      nativeWidth |-> native[1], nativeHeight |-> native[2],
      clientWidth |-> display[1], clientHeight |-> display[2],
      layouts |-> lays,
      lastChange |-> << >>, changes |-> 0 ]

\* the constructor on a video element that is a child of a parent with the
\* given children
constructedIn(children, optEnabled, src, loaded, ready, native, display, lays) ==
    LET s0 == [page(children, src, loaded, native, display, lays)
                  EXCEPT !.enabled = optEnabled]
        s1 == createElements(s0)
        \* _attachEventListeners runs before _boundWindowResizeHandler is
        \* assigned: addEventListener('resize', undefined) registers nothing
        s2 == [s1 EXCEPT !.elementListeners = TRUE, !.winResize = FALSE]
        s3 == [s2 EXCEPT !.originalVideoWidth = s2.videoWidth,
                         !.originalVideoHeight = s2.videoHeight,
                         !.timerPending = ~loaded /\ ready,
                         !.metadataListener = ~loaded]
    IN IF optEnabled THEN enable(s3) ELSE s3

constructed(optEnabled, src, loaded, ready, native, display, lays) ==
    constructedIn(DefaultChildren, optEnabled, src, loaded, ready, native, display, lays)

\* a constructor that validates the surface only after creating the elements
\* and attaching their listeners
constructorValidatesLast(surface, children, optEnabled, src, loaded, ready, native, display, lays) ==
    IF surface # "video"
    THEN [page(children, FALSE, FALSE, native, display, lays)
             EXCEPT !.createdElements = EngineElements,
                    !.elementListeners = TRUE,
                    !.thrown = TRUE]
    ELSE constructedIn(children, optEnabled, src, loaded, ready, native, display, lays)

\* new VideoAreaSelector(options): options.videoElement is a video element,
\* another element ("div") or missing ("none")
constructor(surface, children, optEnabled, src, loaded, ready, native, display, lays) ==
    IF surface # "video"
    THEN [page(children, FALSE, FALSE, native, display, lays) EXCEPT !.thrown = TRUE]
    ELSE constructedIn(children, optEnabled, src, loaded, ready, native, display, lays)

\* the engine's variables hold the record s
HoldsEngine(s) ==
    /\ enabled = s.enabled
    /\ overlayDisplay = s.overlayDisplay
    /\ boxDisplay = s.boxDisplay
    /\ boxStyle = s.boxStyle
    /\ isSelecting = s.isSelecting
    /\ isResizing = s.isResizing
    /\ activeHandle = s.activeHandle
    /\ startX = s.startX
    /\ startY = s.startY
    /\ selectionLeft = s.selectionLeft
    /\ selectionTop = s.selectionTop
    /\ selectionWidth = s.selectionWidth
    /\ selectionHeight = s.selectionHeight
    /\ lastMoveEvent = s.lastMoveEvent
    /\ docMoveListeners = s.docMoveListeners
    /\ docMouseUp = s.docMouseUp
    /\ winResize = s.winResize
    /\ metadataListener = s.metadataListener
    /\ timerPending = s.timerPending
    /\ attached = s.attached
    /\ parentChildren = s.parentChildren
    /\ wrapperChildren = s.wrapperChildren
    /\ originalChildren = s.originalChildren
    /\ createdElements = s.createdElements
    /\ elementListeners = s.elementListeners
    /\ thrown = s.thrown
    /\ originalVideoWidth = s.originalVideoWidth
    /\ originalVideoHeight = s.originalVideoHeight
    /\ hasSrc = s.hasSrc
    /\ videoWidth = s.videoWidth
    /\ videoHeight = s.videoHeight
    /\ nativeWidth = s.nativeWidth
    /\ nativeHeight = s.nativeHeight
    /\ clientWidth = s.clientWidth
    /\ clientHeight = s.clientHeight
    /\ layouts = s.layouts
    /\ lastChange = s.lastChange
    /\ changes = s.changes

\* the page before its script ran: no theme handler, no template manager, no
\* selector of the application
NoThemeHandler ==
    [ constructed |-> FALSE, stored |-> "null", dataTheme |-> "null",
      checked |-> FALSE, icon |-> "", systemDark |-> FALSE,
      hadPreference |-> FALSE, toggled |-> FALSE ]
NoTemplateManager ==
    [ constructed |-> FALSE, templates |-> << >>, stored |-> << >>,
      listed |-> { }, nameInput |-> "", contentInput |-> "",
      editIndex |-> << >>, saveText |-> "", cancelDisplay |-> "" ]
NoApplication ==
    [ isSelectionMode |-> FALSE, videoAreaSelector |-> "null",
      replaced |-> << >>, loading |-> FALSE, loads |-> 0 ]

\* the variables hold the engine record s, on a page without the application
Holds(s) ==
    /\ HoldsEngine(s)
    /\ themeHandler = NoThemeHandler
    /\ templateManager = NoTemplateManager
    /\ application = NoApplication

\* any construction: with or without a source, metadata loaded or not yet
\* (then with or without the fallback timer), enabled or not
Init ==
    \E e \in BOOLEAN, src \in BOOLEAN, loaded \in BOOLEAN, ready \in BOOLEAN :
       \E d \in TinyLayouts :
          /\ loaded => src
          /\ ready => ~loaded
          /\ Holds(constructed(e, src, loaded, ready, SmallNative, d, TinyLayouts))

\* construction on a loaded video, enabled: the application's case
InitGeometry ==
    \E d \in SmallLayouts :
       Holds(constructed(TRUE, TRUE, TRUE, FALSE, SmallNative, d, SmallLayouts))

InitScenario ==
    \E d \in ScenarioLayouts :
       Holds(constructed(TRUE, TRUE, TRUE, FALSE, ScenarioNative, d, ScenarioLayouts))

\* the surfaces a caller passes and the places of the surface among the
\* children of its parent: up to MaxSiblings siblings before and after it
Surfaces == { "video", "div", "none" }
Arrangement(surface, before, after) ==
    [ i \in 1..before |-> Sibling(i) ]
       \o (IF surface = "none" THEN << >> ELSE << << surface, 0 >> >>)
       \o [ i \in 1..after |-> Sibling(before + i) ]

\* any construction on a loaded video, or on a surface that is no video
InitDom ==
    \E surface \in Surfaces, before \in 0..MaxSiblings, after \in 0..MaxSiblings,
       e \in BOOLEAN :
       Holds(constructor(surface, Arrangement(surface, before, after), e,
                         TRUE, TRUE, FALSE, SmallNative,
                         << MaxDisplay - 1, MaxDisplay - 1 >>,
                         { << MaxDisplay - 1, MaxDisplay - 1 >> }))

InitResize ==
    \E d \in ResizeLayouts :
       Holds(constructed(TRUE, TRUE, TRUE, FALSE, NarrowNative, d, ResizeLayouts))

(***************************************************************************)
(* Events and calls                                                        *)
(***************************************************************************)
\* the pointer position p is over the overlay, which covers the video box
OnOverlay(p) == p[1] >= 0 /\ p[1] < clientWidth /\ p[2] >= 0 /\ p[2] < clientHeight

\* 'mousedown' whose target is the overlay
MouseDownOverlay ==
    /\ attached /\ elementListeners /\ overlayDisplay # "none"
    /\ \E p \in PointerPoints :
          /\ OnOverlay(p)
          /\ Apply(handleSelectionStart(Begin(S), p[1], p[2]))

\* 'mousedown' whose target is a corner handle of the visible selection box
MouseDownHandle ==
    /\ attached /\ elementListeners /\ boxDisplay = "block"
    /\ \E h \in Handles : Apply(handleResizeStart(Begin(S), h))

\* the document 'mousemove' listeners, in registration order
documentMouseMove(s, x, y) ==
    LET run(st, name) == IF name = "select" THEN documentMouseMoveHandler(st, x, y)
                         ELSE documentResizeHandler(st, x, y)
        ls == s.docMoveListeners
        s1 == IF Len(ls) >= 1 THEN run(s, ls[1]) ELSE s
    IN IF Len(ls) >= 2 THEN run(s1, ls[2]) ELSE s1

\* 'mousemove' at (x, y), over the overlay or not: on the overlay its listener
\* runs first, then the event bubbles to the document
mouseMove(s, x, y, onOverlay) ==
    documentMouseMove(IF onOverlay THEN handleSelectionMove(s, x, y) ELSE s, x, y)

MouseMove ==
    \E p \in PointerPoints, onOverlay \in BOOLEAN :
       /\ onOverlay => /\ attached /\ elementListeners
                       /\ overlayDisplay # "none" /\ OnOverlay(p)
       /\ Apply(mouseMove(Begin(S), p[1], p[2], onOverlay))

\* 'mouseup', over the overlay or not: on the overlay its listener runs first,
\* then the event bubbles to the document
mouseUp(s, onOverlay) ==
    LET s1 == IF onOverlay THEN handleSelectionEnd(s) ELSE s
    IN IF s1.docMouseUp THEN documentMouseUpHandler(s1) ELSE s1

MouseUp ==
    \E onOverlay \in BOOLEAN :
       /\ onOverlay => attached /\ elementListeners /\ overlayDisplay # "none"
       /\ Apply(mouseUp(Begin(S), onOverlay))

\* the public methods, callable on an engine whose constructor returned
Enable == ~thrown /\ Apply(enable(Begin(S)))
Disable == ~thrown /\ Apply(disable(Begin(S)))
Destroy == ~thrown /\ Apply(destroy(Begin(S)))
GetSelection == ~thrown /\ Apply(getSelection(Begin(S)))
ClearSelection == ~thrown /\ Apply(clearSelection(Begin(S)))
SetSelection ==
    /\ ~thrown
    /\ \E a \in SetSelectionArgs :
          Apply(setSelection(Begin(S), a.left, a.top, a.width, a.height))

\* setSelection with a rectangle inside the native frame
SetSelectionInFrame ==
    /\ ~thrown
    /\ \E a \in InFrameArgs :
          Apply(setSelection(Begin(S), a.left, a.top, a.width, a.height))

\* the video's metadata arrives: the element reports its intrinsic size and
\* the constructor's 'loadedmetadata' listener copies it
LoadedMetadata ==
    /\ hasSrc /\ videoWidth = 0
    /\ LET s1 == [Begin(S) EXCEPT !.videoWidth = nativeWidth, !.videoHeight = nativeHeight]
       IN Apply(IF s1.metadataListener
                THEN [s1 EXCEPT !.originalVideoWidth = s1.videoWidth,
                                !.originalVideoHeight = s1.videoHeight]
                ELSE s1)

\* the constructor's 100 ms fallback timer fires
TimerFires ==
    /\ timerPending
    /\ Apply([Begin(S) EXCEPT !.timerPending = FALSE,
                              !.originalVideoWidth = videoWidth,
                              !.originalVideoHeight = videoHeight])

\* layout changes the displayed size of the video; the 'resize' handler
\* _updateSelectionOverlaySize has an empty body
DisplayResize ==
    \E d \in layouts :
       /\ d # << clientWidth, clientHeight >>
       /\ Apply([Begin(S) EXCEPT !.clientWidth = d[1], !.clientHeight = d[2]])

Next ==
    \/ MouseDownOverlay
    \/ MouseDownHandle
    \/ MouseMove
    \/ MouseUp
    \/ Enable
    \/ Disable
    \/ Destroy
    \/ GetSelection
    \/ ClearSelection
    \/ SetSelection
    \/ LoadedMetadata
    \/ TimerFires
    \/ DisplayResize

\* gestures and calls on an enabled engine, in a box of constant size
NextGeometry ==
    \/ MouseDownOverlay
    \/ MouseDownHandle
    \/ MouseMove
    \/ MouseUp
    \/ GetSelection
    \/ ClearSelection
    \/ SetSelection

\* the same with changes of layout
NextResize ==
    \/ NextGeometry
    \/ DisplayResize

\* gestures and the life cycle, in a box of constant size
NextDom ==
    \/ MouseDownOverlay
    \/ MouseDownHandle
    \/ MouseMove
    \/ MouseUp
    \/ Enable
    \/ Disable
    \/ Destroy
    \/ ClearSelection
    \/ SetSelection

\* create gestures, resize gestures and setSelection inside the native frame,
\* in a box of constant size
NextFrame ==
    \/ MouseDownOverlay
    \/ MouseDownHandle
    \/ MouseMove
    \/ MouseUp
    \/ SetSelectionInFrame

Spec == Init /\ [][Next]_vars
SpecDom == InitDom /\ [][NextDom]_vars
SpecGeometry == InitGeometry /\ [][NextGeometry]_vars
SpecScenario == InitScenario /\ [][NextGeometry]_vars
SpecResize == InitResize /\ [][NextResize]_vars
SpecFrame == InitGeometry /\ [][NextFrame]_vars

(***************************************************************************)
(* TemplateManager (js/templates.js), on a page without a template in its  *)
(* URL.  A template is a record of name and content; indices are the       *)
(* array's, from 0.  An assignment past the end of the array leaves empty  *)
(* slots, which forEach skips and JSON.stringify writes as null.           *)
(***************************************************************************)
Template(n, c) == [name |-> n, content |-> c]
EmptySlot == Template("<empty>", "<empty>")

\* what the user can have in the form: names and contents, or only a blank
TemplateNames == { "a", "b" }
TemplateContents == { "{left},{top}" }
Blank == " "
Trim(v) == IF v = Blank THEN "" ELSE v

\* array[index] = value
ArraySet(array, index, value) ==
    IF index < Len(array) THEN [array EXCEPT ![index + 1] = value]
    ELSE [k \in 1..(index + 1) |->
             IF k <= Len(array) THEN array[k]
             ELSE IF k = index + 1 THEN value ELSE EmptySlot]
\* array.splice(index, 1)
Splice1(array, index) ==
    IF index < Len(array)
    THEN [k \in 1..(Len(array) - 1) |-> IF k <= index THEN array[k] ELSE array[k + 1]]
    ELSE array

saveTemplates(m) == [m EXCEPT !.stored = m.templates]

\* renderTemplates: one edit and one delete button per template, with its index
renderTemplates(m) ==
    [m EXCEPT !.listed = { k - 1 : k \in { x \in 1..Len(m.templates) :
                                              m.templates[x] # EmptySlot } }]

\* the constructor and init(): loads the templates localStorage has
templateManagerInit(m) ==
    renderTemplates([m EXCEPT !.constructed = TRUE, !.templates = m.stored])

handleDeleteClick(m, index) ==
    renderTemplates(saveTemplates([m EXCEPT !.templates = Splice1(@, index)]))

handleEditClick(m, index) ==
    [m EXCEPT !.nameInput = m.templates[index + 1].name,
              !.contentInput = m.templates[index + 1].content,
              !.saveText = "Update Template",
              !.editIndex = << index >>,
              !.cancelDisplay = "inline-block"]

handleSaveTemplate(m) ==
    LET name == Trim(m.nameInput)
        content == Trim(m.contentInput)
    IN IF name = "" \/ content = "" THEN m
       ELSE LET m1 == IF m.editIndex # << >>
                      THEN [m EXCEPT !.templates =
                                        ArraySet(@, m.editIndex[1], Template(name, content)),
                                     !.editIndex = << >>,
                                     !.saveText = "Save Template",
                                     !.cancelDisplay = "none"]
                      ELSE [m EXCEPT !.templates = Append(@, Template(name, content))]
            IN [renderTemplates(saveTemplates(m1))
                   EXCEPT !.nameInput = "", !.contentInput = ""]

handleCancelEdit(m) ==
    [m EXCEPT !.nameInput = "", !.contentInput = "",
              !.saveText = "Save Template",
              !.editIndex = << >>,
              !.cancelDisplay = "none"]

(***************************************************************************)
(* ThemeHandler (unnamed/part_001).  localStorage.getItem gives "null"     *)
(* for a missing key.  The fields hadPreference and toggled record what    *)
(* the user did: whether the key existed when the page was loaded, and     *)
(* whether the user has used the toggle.                                   *)
(***************************************************************************)
Themes == { "dark", "light" }
SystemTheme(matches) == IF matches THEN "dark" ELSE "light"

getColorPreference(t) ==
    IF t.stored # "null" THEN t.stored ELSE SystemTheme(t.systemDark)

setTheme(t, theme) ==
    [t EXCEPT !.dataTheme = theme,
              !.stored = theme,
              !.checked = (theme = "dark"),
              !.icon = IF theme = "dark" THEN "moon" ELSE "sun"]

\* init(): sets the initial theme, the toggle, and registers the listeners
themeHandlerInit(t) ==
    LET currentTheme == getColorPreference(t)
    IN [setTheme(t, currentTheme) EXCEPT !.constructed = TRUE]

handleToggle(t, checked) ==
    setTheme([t EXCEPT !.checked = checked], IF checked THEN "dark" ELSE "light")

\* the 'change' listener of matchMedia('(prefers-color-scheme: dark)')
systemSchemeListener(t, matches) ==
    LET t1 == [t EXCEPT !.systemDark = matches]
    IN IF t1.constructed /\ t1.stored = "null"
       THEN setTheme(t1, SystemTheme(matches))
       ELSE t1

(***************************************************************************)
(* The page script (unnamed/part_000).  An operator takes and gives the    *)
(* script's variables (app) and the record of the video element with the   *)
(* current selector (engine).  The 'active' classes of the mode buttons    *)
(* and videoElement.controls are left out.                                 *)
(***************************************************************************)
Page(a, s) == [app |-> a, engine |-> s]

playbackModeClick(a, s) ==
    IF ~a.isSelectionMode THEN Page(a, s)
    ELSE Page([a EXCEPT !.isSelectionMode = FALSE],
              IF a.videoAreaSelector # "null" THEN disable(s) ELSE s)

selectionModeClick(a, s) ==
    IF a.isSelectionMode THEN Page(a, s)
    ELSE Page([a EXCEPT !.isSelectionMode = TRUE],
              IF a.videoAreaSelector # "null" THEN enable(s) ELSE s)

\* 'keydown' of the M key outside an input element
keydownM(a, s) ==
    IF s.hasSrc
    THEN IF a.isSelectionMode THEN playbackModeClick(a, s) ELSE selectionModeClick(a, s)
    ELSE Page(a, s)

\* handleFileSelection(file): a video file becomes the source of the video
\* element, whose metadata is not loaded yet; another file only gives an alert
handleFileSelection(a, s, isVideo) ==
    IF isVideo
    THEN Page([a EXCEPT !.loading = TRUE, !.loads = @ + 1],
              [s EXCEPT !.hasSrc = TRUE, !.videoWidth = 0, !.videoHeight = 0])
    ELSE Page(a, s)

\* onloadedmetadata that constructs the new selector enabled
onloadedmetadataEnabled(a, s) ==
    LET s1 == [s EXCEPT !.videoWidth = s.nativeWidth, !.videoHeight = s.nativeHeight]
        old == IF a.videoAreaSelector # "null" THEN destroy(s1) ELSE s1
    IN Page([a EXCEPT !.loading = FALSE,
                      !.videoAreaSelector = "selector",
                      !.replaced = IF a.videoAreaSelector # "null"
                                   THEN Append(@, old) ELSE @],
            constructedIn(old.parentChildren, TRUE, TRUE, TRUE, FALSE,
                          << s1.nativeWidth, s1.nativeHeight >>,
                          << s1.clientWidth, s1.clientHeight >>, s1.layouts))

\* videoElement.onloadedmetadata: destroys the selector there is and constructs
\* one on the video element, enabled as the mode says
onloadedmetadata(a, s) ==
    LET s1 == [s EXCEPT !.videoWidth = s.nativeWidth, !.videoHeight = s.nativeHeight]
        old == IF a.videoAreaSelector # "null" THEN destroy(s1) ELSE s1
    IN Page([a EXCEPT !.loading = FALSE,
                      !.videoAreaSelector = "selector",
                      !.replaced = IF a.videoAreaSelector # "null"
                                   THEN Append(@, old) ELSE @],
            constructedIn(old.parentChildren, a.isSelectionMode, TRUE, TRUE, FALSE,
                          << s1.nativeWidth, s1.nativeHeight >>,
                          << s1.clientWidth, s1.clientHeight >>, s1.layouts))

\* the page after DOMContentLoaded: the theme handler is constructed over the
\* localStorage entry of an earlier visit (or none), there is no selector yet
InitApp ==
    /\ \E d \in SmallLayouts :
          HoldsEngine(page(DefaultChildren, FALSE, FALSE, SmallNative, d, SmallLayouts))
    /\ \E stored \in Themes \cup { "null" }, matches \in BOOLEAN :
          themeHandler =
             themeHandlerInit([NoThemeHandler EXCEPT !.stored = stored,
                                                     !.systemDark = matches,
                                                     !.hadPreference = (stored # "null")])
    /\ templateManager = templateManagerInit(NoTemplateManager)
    /\ application = NoApplication

\* the page becomes pg; the theme handler and the template manager stay
ApplyPage(pg) ==
    /\ ApplyEngine(pg.engine)
    /\ application' = pg.app
    /\ UNCHANGED << themeHandler, templateManager >>

\* the page script ran: its listeners are registered
ScriptLoaded == themeHandler.constructed

PlaybackModeClick ==
    ScriptLoaded /\ ApplyPage(playbackModeClick(application, Begin(S)))
SelectionModeClick ==
    ScriptLoaded /\ ApplyPage(selectionModeClick(application, Begin(S)))
KeydownM ==
    ScriptLoaded /\ ApplyPage(keydownM(application, Begin(S)))
\* the user drops or chooses a file, at most MaxLoads times
SelectFile ==
    /\ application.loads < MaxLoads
    /\ \E isVideo \in BOOLEAN :
          ApplyPage(handleFileSelection(application, Begin(S), isVideo))
\* the metadata of the chosen file arrives
VideoLoaded ==
    /\ application.loading
    /\ ApplyPage(onloadedmetadata(application, Begin(S)))

\* the user clicks the theme toggle
ThemeToggle ==
    /\ themeHandler.constructed
    /\ themeHandler' = [handleToggle(themeHandler, ~themeHandler.checked)
                           EXCEPT !.toggled = TRUE]
    /\ UNCHANGED << engineVars, templateManager, application >>
\* the system colour scheme changes
SystemSchemeChange ==
    /\ themeHandler' = systemSchemeListener(themeHandler, ~themeHandler.systemDark)
    /\ UNCHANGED << engineVars, templateManager, application >>

NextApp ==
    \/ PlaybackModeClick
    \/ SelectionModeClick
    \/ KeydownM
    \/ SelectFile
    \/ VideoLoaded
    \/ ThemeToggle
    \/ SystemSchemeChange

SpecApp == InitApp /\ [][NextApp]_vars

\* the template manager of a page on which the user has up to MaxStored
\* templates from earlier visits
StoredTemplates ==
    UNION { [1..n -> { Template(nm, ct) : nm \in TemplateNames, ct \in TemplateContents }] :
               n \in 0..MaxStored }
InitTemplates ==
    /\ \E d \in SmallLayouts :
          HoldsEngine(page(DefaultChildren, FALSE, FALSE, SmallNative, d, SmallLayouts))
    /\ themeHandler = NoThemeHandler
    /\ application = NoApplication
    /\ \E st \in StoredTemplates :
          templateManager = templateManagerInit([NoTemplateManager EXCEPT !.stored = st])

\* the template manager becomes m; nothing else changes
ApplyTemplates(m) ==
    /\ templateManager' = m
    /\ UNCHANGED << engineVars, themeHandler, application >>

\* the user clicks the Edit / Delete button of a listed template
EditClick ==
    \E index \in templateManager.listed :
       ApplyTemplates(handleEditClick(templateManager, index))
DeleteClick ==
    \E index \in templateManager.listed :
       ApplyTemplates(handleDeleteClick(templateManager, index))
\* the user types a name and a content into the form, or blanks
TypeTemplate ==
    /\ templateManager.constructed
    /\ \E nm \in TemplateNames \cup { Blank }, ct \in TemplateContents \cup { Blank } :
          ApplyTemplates([templateManager EXCEPT !.nameInput = nm, !.contentInput = ct])
\* the user clicks Save; the list holds up to MaxTemplates templates
SaveClick ==
    /\ templateManager.constructed
    /\ Len(templateManager.templates) < MaxTemplates \/ templateManager.editIndex # << >>
    /\ ApplyTemplates(handleSaveTemplate(templateManager))
CancelClick ==
    /\ templateManager.constructed
    /\ ApplyTemplates(handleCancelEdit(templateManager))

NextTemplates ==
    \/ EditClick
    \/ DeleteClick
    \/ TypeTemplate
    \/ SaveClick
    \/ CancelClick

SpecTemplates == InitTemplates /\ [][NextTemplates]_vars

(***************************************************************************)
(* Properties                                                              *)
(***************************************************************************)
\* the stored rectangle, as the fields and as the box's inline style
StoredRect == Rect(selectionLeft, selectionTop, selectionWidth, selectionHeight)
BoxRect == Rect(ParseIntOr0(boxStyle.left), ParseIntOr0(boxStyle.top),
                ParseIntOr0(boxStyle.width), ParseIntOr0(boxStyle.height))
\* native and displayed dimensions are known to the engine
DimensionsKnown ==
    /\ hasSrc /\ originalVideoWidth # 0 /\ originalVideoHeight # 0
    /\ clientWidth > 0 /\ clientHeight > 0
\* the last event or call invoked onChange
Published == changes > 0 /\ lastChange # << >>
InRange(v, lo, hi) == lo <= v /\ v <= hi

\* ---- C1 ----
ScenarioRect == Rect(100, 50, 200, 100)
ScenarioData ==
    [ absolute |-> [ left |-> 200, top |-> 100, width |-> 400, height |-> 200,
                     right |-> 1320, bottom |-> 780 ],
      relative |-> [ left |-> 104167, top |-> 92593, width |-> 208333,
                     height |-> 185185, right |-> 687500, bottom |-> 722222 ],
      video |-> [ width |-> 1920, height |-> 1080 ] ]
ScenarioResult ==
    /\ StoredRect = ScenarioRect /\ BoxRect = ScenarioRect /\ boxDisplay = "block"
    /\ lastChange = << ScenarioData >>
\* a create gesture anchored at (100, 50), in a 960x540 box, that no other
\* pointer-down and no clearSelection has interfered with
ScenarioGesture ==
    /\ nativeWidth = 1920 /\ nativeHeight = 1080
    /\ clientWidth = 960 /\ clientHeight = 540
    /\ enabled /\ isSelecting /\ ~isResizing /\ boxDisplay = "block"
    /\ startX = 100 /\ startY = 50
ScenarioMove ==
    /\ ScenarioGesture
    /\ \E onOverlay \in BOOLEAN : S' = mouseMove(Begin(S), 300, 150, onOverlay)
ScenarioUp ==
    /\ ScenarioGesture /\ ScenarioResult
    /\ lastMoveEvent = << [clientX |-> 300, clientY |-> 150] >>
    /\ \E onOverlay \in BOOLEAN : S' = mouseUp(Begin(S), onOverlay)

\* C1: in the 1920x1080 at 960x540 scenario, a pointer-move to (300, 150) of
\* the create gesture anchored at (100, 50) leaves the displayed rectangle
\* {100, 50, 200, 100} and publishes absolute {200, 100, 400, 200, 1320, 780}
\* and relative {0.104167, 0.092593, 0.208333, 0.185185, 0.6875, 0.722222};
\* the pointer-up that follows ends the gesture and leaves both in place.
C1_Scenario ==
    [][ /\ ScenarioMove => ScenarioResult' /\ changes' > 0
        /\ ScenarioUp => ScenarioResult' /\ ~isSelecting' ]_vars

C1_Witness ==
    /\ ScenarioResult /\ ~isSelecting /\ ~isResizing
    /\ startX = 100 /\ startY = 50
    /\ lastMoveEvent = << [clientX |-> 300, clientY |-> 150] >>

\* ---- C2 ----
UnitFields(r) ==
    /\ InRange(r.left, 0, Million) /\ InRange(r.top, 0, Million)
    /\ InRange(r.width, 0, Million) /\ InRange(r.height, 0, Million)
    /\ InRange(r.right, 0, Million) /\ InRange(r.bottom, 0, Million)

\* C2: in every published SelectionData the six relative fields lie in [0, 1].
C2_RelativeInUnit == lastChange # << >> => UnitFields(lastChange[1].relative)

\* ---- C3 ----
\* C3: in every published SelectionData absolute.left >= 0, absolute.top >= 0,
\* absolute.left + absolute.width <= nativeWidth + 1 and
\* absolute.top + absolute.height <= nativeHeight + 1.
C3_AbsoluteInFrame ==
    lastChange # << >> =>
        LET a == lastChange[1].absolute
        IN /\ a.left >= 0 /\ a.top >= 0
           /\ a.left + a.width <= nativeWidth + 1
           /\ a.top + a.height <= nativeHeight + 1

\* a payload that uses the rounding slack on both axes
C3_Witness ==
    /\ lastChange # << >>
    /\ lastChange[1].absolute.left + lastChange[1].absolute.width = nativeWidth + 1
    /\ lastChange[1].absolute.top + lastChange[1].absolute.height <= nativeHeight

\* ---- C4 ----
MarginsOf(d) ==
    /\ d.absolute.right = nativeWidth - (d.absolute.left + d.absolute.width)
    /\ d.absolute.bottom = nativeHeight - (d.absolute.top + d.absolute.height)
    /\ d.video = [width |-> nativeWidth, height |-> nativeHeight]

\* C4: in the SelectionData last published and in the one getSelection()
\* returns, absolute.right = nativeWidth - (left + width), absolute.bottom =
\* nativeHeight - (top + height), and video is the native resolution.
C4_Margins ==
    /\ lastChange # << >> => MarginsOf(lastChange[1])
    /\ getSelectionResult(S) # << >> => MarginsOf(getSelectionResult(S)[1])

C4_Witness ==
    /\ lastChange # << >> /\ getSelectionResult(S) # << >>
    /\ lastChange[1].absolute.right > 0
    /\ getSelectionResult(S)[1].absolute.right > 0
    /\ getSelectionResult(S)[1].absolute.width > 0

\* ---- C5 ----
InsideBox(r) ==
    /\ r.left >= 0 /\ r.top >= 0 /\ r.width >= 0 /\ r.height >= 0
    /\ r.left + r.width <= clientWidth /\ r.top + r.height <= clientHeight
\* the payload published for the displayed rectangle r in the current frame
NativeOf(r) == toNative(r.left, r.top, r.width, r.height,
                        originalVideoWidth, originalVideoHeight,
                        clientWidth, clientHeight)
\* the rectangle setSelection stores for the native rectangle a
DisplayOf(a) ==
    Rect(MathRound(a.left * clientWidth, originalVideoWidth),
         MathRound(a.top * clientHeight, originalVideoHeight),
         MathRound(a.width * clientWidth, originalVideoWidth),
         MathRound(a.height * clientHeight, originalVideoHeight))
\* the payload last published is the one of the stored rectangle, which lies
\* inside the box, and it is passed to setSelection
RoundTripStep ==
    /\ DimensionsKnown /\ boxDisplay = "block" /\ lastChange # << >>
    /\ StoredRect = BoxRect /\ InsideBox(StoredRect)
    /\ lastChange[1] = NativeOf(StoredRect)
    /\ LET a == lastChange[1].absolute
       IN S' = setSelection(Begin(S), a.left, a.top, a.width, a.height)
Near(a, b) == Abs(a - b) <= 1

SetSelectionActed ==
    /\ changes = 1 /\ ~isSelecting /\ ~isResizing /\ boxDisplay = "block"
    /\ \/ lastMoveEvent = << >>
       \/ LET b == dragBox(S, lastMoveEvent[1].clientX, lastMoveEvent[1].clientY)
          IN StoredRect # Rect(b.left, b.top, b.width, b.height)

C6_FullFrame ==
    [][ ( /\ DimensionsKnown
          /\ S' = setSelection(Begin(S), 0, 0, nativeWidth, nativeHeight) )
        => /\ getSelectionResult(S') # << >>
           /\ getSelectionResult(S')[1].absolute.right = 0
           /\ getSelectionResult(S')[1].absolute.bottom = 0 ]_vars

C6_Witness ==
    /\ SetSelectionActed
    /\ StoredRect = DisplayOf(Rect(0, 0, nativeWidth, nativeHeight))
    /\ getSelectionResult(S) # << >>
    /\ getSelectionResult(S)[1].absolute.right = 0
    /\ getSelectionResult(S)[1].absolute.width = nativeWidth

\* ---- C7 ----
\* C7: right after an onChange invocation getSelection() returns a
\* SelectionData equal to the payload just published.
C7_GetAgrees == Published => getSelectionResult(S) = lastChange

\* ---- C8 ----
LayoutChanged == << clientWidth, clientHeight >>' # << clientWidth, clientHeight >>
NearRect(a, b) ==
    /\ Near(a.left, b.left) /\ Near(a.top, b.top)
    /\ Near(a.width, b.width) /\ Near(a.height, b.height)

\* C8: when the displayed size changes while a selection exists, getSelection()
\* reports the same native rectangle after the change as before it, within 1
\* per field.
C8_ResizeKeepsNative ==
    [][ (LayoutChanged /\ getSelectionResult(S) # << >>)
        => /\ getSelectionResult(S') # << >>
           /\ NearRect(getSelectionResult(S')[1].absolute,
                       getSelectionResult(S)[1].absolute) ]_vars

\* ---- C9 ----
ClearStep == S' = clearSelection(Begin(S))
\* a pointer-down that starts a create gesture, or a setSelection call
CreateOrSetStep ==
    \/ \E p \in PointerPoints : S' = handleSelectionStart(Begin(S), p[1], p[2])
    \/ \E r \in SetSelectionArgs :
          S' = setSelection(Begin(S), r.left, r.top, r.width, r.height)

\* C9: clearSelection() hides the box without invoking onChange; while the box
\* is hidden getSelection() returns null; and the box stays hidden until a
\* pointer-down starts a create gesture or setSelection takes effect.
C9_ClearedUntilCreated ==
    [][ /\ ClearStep => /\ boxDisplay' = "none" /\ getSelectionResult(S') = << >>
                        /\ changes' = 0 /\ lastChange' = lastChange
        /\ boxDisplay = "none" => getSelectionResult(S) = << >>
        /\ (boxDisplay = "none" /\ boxDisplay' # "none") => CreateOrSetStep ]_vars

\* a selection was published and then cleared while the dimensions are known
C9_Witness ==
    /\ boxDisplay = "none" /\ DimensionsKnown /\ lastChange # << >>
    /\ changes = 0 /\ getSelectionResult(S) = << >>

\* ---- C10 ----
DimensionsZero ==
    \/ videoWidth = 0 \/ videoHeight = 0
    \/ clientWidth = 0 \/ clientHeight = 0

\* C10: the box is not shown after construction; getSelection() returns null
\* while the box is not shown; the box becomes shown only by a pointer-down
\* that starts a create gesture or by setSelection; and getSelection() returns
\* null whenever the native or the displayed dimensions are zero.
C10_NullBeforeFirst ==
    /\ boxDisplay = "" /\ getSelectionResult(S) = << >>
    /\ [][ /\ boxDisplay' # "block" => getSelectionResult(S') = << >>
           /\ (boxDisplay # "block" /\ boxDisplay' = "block") => CreateOrSetStep
           /\ DimensionsZero => getSelectionResult(S) = << >>
           /\ DimensionsZero' => getSelectionResult(S') = << >> ]_vars

\* a box that was shown while the dimensions were known, and the element has
\* since lost its displayed size
C10_Witness ==
    /\ boxDisplay = "block" /\ lastChange # << >>
    /\ videoWidth > 0 /\ videoHeight > 0 /\ clientWidth = 0
    /\ getSelectionResult(S) = << >>

\* ---- C11 ----
\* the native resolution is unknown to the engine, or the video has no
\* displayed width or height
TransformUnavailable ==
    \/ originalVideoWidth = 0 \/ originalVideoHeight = 0
    \/ clientWidth = 0 \/ clientHeight = 0

\* C11: while the native resolution is unknown or the displayed width or
\* height is 0, setSelection changes nothing: the stored rectangle, the box
\* and its visibility stay as they are and onChange is not invoked.
C11_SetSelectionNoOp ==
    TransformUnavailable =>
        \A a \in SetSelectionArgs \cup { Rect(0, 0, 1, 1) } :
            setSelection(Begin(S), a.left, a.top, a.width, a.height) = Begin(S)

\* a rectangle exists and was published, and the element has lost its size
C11_Witness ==
    /\ TransformUnavailable /\ hasSrc /\ originalVideoWidth # 0
    /\ boxDisplay = "block" /\ lastChange # << >> /\ changes = 0

\* ---- C12 ----
SelectionDataFields == { "absolute", "relative", "video" }
RectFields == { "left", "top", "width", "height", "right", "bottom" }

\* C12: an event or call that starts while the native resolution is unknown
\* or the displayed width or height is 0 does not invoke onChange, and every
\* onChange payload is a complete SelectionData, never null.
C12_NoChangeWithoutTransform ==
    [][ /\ TransformUnavailable => changes' = 0
        /\ changes' > 0 =>
              /\ lastChange' # << >>
              /\ DOMAIN lastChange'[1] = SelectionDataFields
              /\ DOMAIN lastChange'[1].absolute = RectFields
              /\ DOMAIN lastChange'[1].relative = RectFields ]_vars

\* a create gesture is running on an enabled engine whose element is hidden
C12_Witness ==
    /\ enabled /\ hasSrc /\ isSelecting /\ HasListener(docMoveListeners, "select")
    /\ clientWidth = 0 /\ lastMoveEvent # << >> /\ changes = 0

\* ---- C13 ----
\* a pointer-down, pointer-move or pointer-up on the overlay, a handle or the
\* document
PointerEvent == MouseDownOverlay \/ MouseDownHandle \/ MouseMove \/ MouseUp

\* C13: while the engine is disabled no pointer event invokes onChange or
\* changes the stored rectangle, the box or its visibility, also when the
\* engine was disabled in the middle of a gesture.
C13_DisabledIgnoresPointer ==
    [][ (~enabled /\ PointerEvent) =>
           /\ changes' = 0 /\ lastChange' = lastChange
           /\ StoredRect' = StoredRect /\ BoxRect' = BoxRect
           /\ boxDisplay' = boxDisplay ]_vars

\* disabled in the middle of a create gesture, with the transform available
C13_Witness ==
    /\ ~enabled /\ attached /\ isSelecting /\ HasListener(docMoveListeners, "select")
    /\ DimensionsKnown /\ boxDisplay = "block" /\ lastChange # << >>
    /\ lastMoveEvent # << >> /\ changes = 0

\* ---- C14 ----
DisableStep == S' = disable(Begin(S))
\* no pointer-up, create-move or resize-move listener is registered on the
\* document (primed: after the step)
NoDocumentListeners == docMoveListeners = << >> /\ ~docMouseUp

\* C14: after disable(), called in any state, no document-level listener of
\* the engine remains registered.
C14_DisableRemovesListeners == [][ DisableStep => NoDocumentListeners' ]_vars

\* ---- C15 ----
\* C15: disable() leaves the stored rectangle, the box and its visibility as
\* they were, and getSelection() returns the same result before and after it.
C15_DisableKeepsSelection ==
    [][ DisableStep =>
           /\ StoredRect' = StoredRect /\ BoxRect' = BoxRect
           /\ boxDisplay' = boxDisplay
           /\ getSelectionResult(S') = getSelectionResult(S) ]_vars

\* a disabled engine whose rectangle is still shown and reported
C15_Witness ==
    /\ ~enabled /\ overlayDisplay = "none" /\ ~docMouseUp /\ attached
    /\ boxDisplay = "block" /\ getSelectionResult(S) # << >>
    /\ getSelectionResult(S)[1].absolute.width > 0

\* ---- C16 ----
DestroyStep == S' = destroy(Begin(S))

\* C16: after destroy(), called in any state, no document-level listener and
\* no window resize listener of the engine is registered.
C16_DestroyRemovesListeners ==
    [][ DestroyStep => NoDocumentListeners' /\ ~winResize' ]_vars

\* destroyed in the middle of a resize gesture
C16_Witness ==
    /\ ~attached /\ isResizing /\ enabled
    /\ NoDocumentListeners /\ ~winResize

\* ---- C17 ----
\* C17: once destroyed, no later call or pointer event invokes onChange or
\* registers a document-level listener.
C17_DestroyedStaysInert ==
    [][ ~attached => changes' = 0 /\ NoDocumentListeners' ]_vars

\* ---- C18 ----
\* C18: the state destroy() leaves, from whatever state it was called, is not
\* changed by a second destroy(): the document, the registered listeners and
\* the engine's fields stay as they are and onChange is not invoked.
C18_DestroyIdempotent ==
    [][ DestroyStep => destroy(Begin(S')) = Begin(S') ]_vars

\* destroyed in the middle of a create gesture, the video back in its place
C18_Witness ==
    /\ ~thrown /\ ~attached /\ isSelecting /\ boxDisplay = "block"
    /\ ~Contains(parentChildren, WrapperNode)
    /\ NoDocumentListeners /\ changes = 0
    /\ destroy(S) = S

\* ---- C19 ----
\* C19: after destroy() the video is again a child of its original parent at
\* its original position among the siblings, and the wrapper, the overlay
\* and the selection box with its handles are not in the document.
C19_DestroyRestoresDocument ==
    [][ DestroyStep =>
           /\ parentChildren' = originalChildren
           /\ Contains(parentChildren', VideoNode)
           /\ \A n \in EngineElements : ~InDocument(S', n) ]_vars

\* a destroyed engine whose video has siblings on both sides
C19_Witness ==
    /\ ~thrown /\ ~attached /\ createdElements = EngineElements
    /\ parentChildren = originalChildren
    /\ Contains(parentChildren, VideoNode)
    /\ IndexOf(parentChildren, VideoNode) > 1
    /\ IndexOf(parentChildren, VideoNode) < Len(parentChildren)
    /\ wrapperChildren = << OverlayNode, BoxNode >>

\* ---- C20 ----
\* C20: construction on a surface that is missing or is not a video element
\* throws, and then no element has been created or moved and no listener is
\* registered.
C20_ConstructionFailsClean ==
    /\ ~Contains(originalChildren, VideoNode) => thrown
    /\ thrown =>
          /\ createdElements = { } /\ wrapperChildren = << >>
          /\ parentChildren = originalChildren
          /\ ~elementListeners /\ NoDocumentListeners /\ ~winResize
          /\ ~metadataListener /\ ~timerPending

\* the constructor was given an element that is not a video, among siblings
C20_Witness ==
    /\ thrown /\ Contains(originalChildren, << "div", 0 >>)
    /\ Len(originalChildren) > 1 /\ parentChildren = originalChildren

\* ---- C21 ----
\* the corner opposite to the handle h of the rectangle r, as a point
OppositeCorner(r, h) ==
    << IF h \in {"NW", "SW"} THEN r.left + r.width ELSE r.left,
       IF h \in {"NW", "NE"} THEN r.top + r.height ELSE r.top >>
\* the engine is in a resize gesture, and in no create gesture
Resizing == enabled /\ hasSrc /\ isResizing /\ ~isSelecting /\ activeHandle \in Handles
\* a pointer-move of the resize gesture that publishes, the payload before it
\* being the one of the stored rectangle, which lies inside the video box
ResizeMovePublishes ==
    /\ Resizing /\ boxDisplay = "block" /\ DimensionsKnown
    /\ StoredRect = BoxRect /\ InsideBox(StoredRect)
    /\ lastChange # << >> /\ lastChange[1] = NativeOf(StoredRect)
    /\ MouseMove /\ changes' > 0

\* C21: during a resize gesture the native coordinates of the corner opposite
\* to the active handle are the same in the payloads before and after each
\* pointer-move.
C21_NativeCornerFixed ==
    [][ ResizeMovePublishes =>
           OppositeCorner(lastChange'[1].absolute, activeHandle)
              = OppositeCorner(lastChange[1].absolute, activeHandle) ]_vars

\* ---- C22 ----
\* the stored rectangle and the rectangle of the box's style in the record s
RectOf(s) == Rect(s.selectionLeft, s.selectionTop, s.selectionWidth, s.selectionHeight)
BoxOf(s) == Rect(ParseIntOr0(s.boxStyle.left), ParseIntOr0(s.boxStyle.top),
                 ParseIntOr0(s.boxStyle.width), ParseIntOr0(s.boxStyle.height))
\* a 'mousemove' at p can be dispatched over the overlay / elsewhere
MoveTargets(p) ==
    { onOverlay \in BOOLEAN :
         onOverlay => /\ attached /\ elementListeners
                      /\ overlayDisplay # "none" /\ OnOverlay(p) }
\* the pointer p, clamped to the video box, is at or past the corner opposite
\* to the active handle, horizontally / vertically
AtOrPastOppositeX(p) ==
    LET cx == Min(Max(0, p[1]), clientWidth)
    IN IF activeHandle \in {"NW", "SW"} THEN cx >= selectionLeft + selectionWidth
       ELSE cx <= selectionLeft
AtOrPastOppositeY(p) ==
    LET cy == Min(Max(0, p[2]), clientHeight)
    IN IF activeHandle \in {"NW", "NE"} THEN cy >= selectionTop + selectionHeight
       ELSE cy <= selectionTop

PublicMethods ==
    { "enable", "disable", "getSelection", "setSelection", "clearSelection", "destroy" }
\* the methods the type declarations promise
DeclaredMethods == PublicMethods \cup { "ready" }
\* the outcome of calling the method m on an engine: a method the class does
\* not define is undefined, and calling it throws a TypeError
Call(m) == IF m \in PublicMethods THEN "returns" ELSE "TypeError"

\* C23: once the dimensions of the video are available, the engine offers
\* ready(), whose promise resolves with the native resolution.
C23_ReadyOffered == (~thrown /\ DimensionsKnown) => Call("ready") = "returns"

\* ---- C24 ----
\* C24: in every state reached by create gestures, resize gestures and
\* setSelection with a rectangle inside the native frame, the display size
\* being constant, the stored visible rectangle lies inside the video box.
C24_RectInsideBox ==
    boxDisplay = "block" => StoredRect = BoxRect /\ InsideBox(StoredRect)

\* ---- C25 ----
\* the engine in the record s is in no gesture
IdleIn(s) == ~s.isSelecting /\ ~s.isResizing /\ s.activeHandle = "null"
\* a 'mouseup' can be dispatched over the overlay / elsewhere
UpTargets ==
    { onOverlay \in BOOLEAN :
         onOverlay => attached /\ elementListeners /\ overlayDisplay # "none" }

\* C25: a pointer-up, on the overlay or elsewhere in the document, while an
\* engine that was not destroyed is creating or resizing, leaves it idle with
\* no active handle, whatever calls of enable() and disable() came before.
C25_PointerUpEndsGesture ==
    (attached /\ (isSelecting \/ isResizing)) =>
       \A onOverlay \in UpTargets : IdleIn(mouseUp(Begin(S), onOverlay))

\* ---- C26 ----
\* the engine is in a create gesture, and in no resize gesture
Creating == enabled /\ hasSrc /\ isSelecting /\ ~isResizing
\* the engine is in no gesture
Idle == IdleIn(S)
\* a 'mousedown' at p can be dispatched on the overlay
DownOnOverlay(p) ==
    attached /\ elementListeners /\ overlayDisplay # "none" /\ OnOverlay(p)

\* C26: when a pointer-down on an idle engine starts a create gesture and the
\* pointer-up follows it directly, on the overlay or elsewhere, the stored
\* rectangle and the box are the 1x1 rectangle at the anchor of this gesture,
\* whatever gestures came before.
C26_DownUpLeavesAnchor ==
    (Idle /\ enabled /\ hasSrc) =>
       \A p \in PointerPoints : \A onOverlay \in UpTargets :
          LET down == handleSelectionStart(Begin(S), p[1], p[2])
              after == mouseUp(Begin(down), onOverlay)
          IN (DownOnOverlay(p) /\ down.isSelecting) =>
                /\ RectOf(after) = Rect(p[1], p[2], 1, 1)
                /\ BoxOf(after) = RectOf(after)

\* ---- C27 ----
\* C27: at most one of the gesture flags isSelecting and isResizing is set,
\* and the document never has the create-move listener and the resize-move
\* listener registered at the same time.
C27_GesturesExclusive ==
    /\ ~(isSelecting /\ isResizing)
    /\ ~(HasListener(docMoveListeners, "select") /\ HasListener(docMoveListeners, "resize"))

\* ---- C28 ----
\* the point p lies inside the visible selection box, borders included
InsideVisibleRect(p) ==
    /\ boxDisplay = "block"
    /\ p[1] >= BoxRect.left /\ p[1] <= BoxRect.left + BoxRect.width
    /\ p[2] >= BoxRect.top /\ p[2] <= BoxRect.top + BoxRect.height
\* the point p lies beyond an edge of the displayed video box
OutsideVideoBox(p) ==
    p[1] < 0 \/ p[2] < 0 \/ p[1] > clientWidth \/ p[2] > clientHeight

\* C28: a pointer-down handled by the overlay's listener at a point inside the
\* visible rectangle, borders included, or outside the displayed video box
\* changes nothing: the gesture flags, the rectangle, the anchor and the
\* document listeners stay as they were and onChange is not invoked.
C28_DownInsideIsNoOp ==
    \A p \in PointerPoints :
       (InsideVisibleRect(p) \/ OutsideVideoBox(p)) =>
          handleSelectionStart(Begin(S), p[1], p[2]) = Begin(S)
\* an idle, enabled engine shows a rectangle that has one pixel of the overlay
\* on its border and leaves another pixel of the overlay outside
C28_Witness ==
    /\ Idle /\ enabled /\ hasSrc /\ boxDisplay = "block"
    /\ \E p \in PointerPoints :
          /\ DownOnOverlay(p) /\ InsideVisibleRect(p) /\ p[1] = BoxRect.left
    /\ \E q \in PointerPoints : DownOnOverlay(q) /\ ~InsideVisibleRect(q)

\* ---- C29 ----
\* the axis-aligned box between the anchor and the point p clamped into
\* [0, clientWidth] x [0, clientHeight], at least one pixel wide and high
ClampedBox(p) ==
    LET cx == IF p[1] < 0 THEN 0 ELSE IF p[1] > clientWidth THEN clientWidth ELSE p[1]
        cy == IF p[2] < 0 THEN 0 ELSE IF p[2] > clientHeight THEN clientHeight ELSE p[2]
    IN Rect(IF startX < cx THEN startX ELSE cx,
            IF startY < cy THEN startY ELSE cy,
            IF cx = startX THEN 1
            ELSE IF cx > startX THEN cx - startX ELSE startX - cx,
            IF cy = startY THEN 1
            ELSE IF cy > startY THEN cy - startY ELSE startY - cy)

C31_ListenersPairedWithGestures ==
    /\ HasListener(docMoveListeners, "select") => isSelecting
    /\ HasListener(docMoveListeners, "resize") => isResizing
    /\ Idle => docMoveListeners = << >>
\* a gesture ended by a pointer-up: the engine published during a gesture, is
\* idle again and shows the rectangle
C31_Witness ==
    /\ Idle /\ attached /\ enabled /\ boxDisplay = "block"
    /\ lastMoveEvent # << >> /\ docMoveListeners = << >>

\* ---- C32 ----
\* the engine after disable(), a pointer-up somewhere in the document (the
\* overlay is hidden) and enable(): no pointer button is held any more
ReleasedWhileDisabled == enable(mouseUp(disable(Begin(S)), FALSE))

\* C32: a pointer-move with no pointer button held neither changes the stored
\* rectangle or the box nor invokes onChange, also after disable() during a
\* gesture, the pointer-up while disabled, and enable().
C32_MoveNeedsButton ==
    (~thrown /\ attached) =>
       \A p \in PointerPoints : \A onOverlay \in BOOLEAN :
          LET released == ReleasedWhileDisabled
              after == mouseMove(released, p[1], p[2], onOverlay)
          IN (onOverlay => (elementListeners /\ OnOverlay(p))) =>
                /\ RectOf(after) = RectOf(released)
                /\ BoxOf(after) = BoxOf(released)
                /\ after.changes = 0

\* ---- C33 ----
\* C33: a pointer-move during a create gesture invokes onChange exactly once,
\* over the overlay as well as outside it.
C33_OneChangePerMove ==
    (Creating /\ DimensionsKnown /\ attached) =>
       \A p \in PointerPoints : \A onOverlay \in MoveTargets(p) :
          mouseMove(Begin(S), p[1], p[2], onOverlay).changes = 1

\* ---- C34 ----
\* C34: a theme handler constructed without a stored preference, whose toggle
\* the user has not used, follows a change of the system colour scheme; once
\* the user has used the toggle, a change of the system scheme leaves the
\* theme as it is.
C34_FollowsSystemUntilToggled ==
    themeHandler.constructed =>
       \A matches \in BOOLEAN :
          LET after == systemSchemeListener(themeHandler, matches)
          IN /\ (~themeHandler.hadPreference /\ ~themeHandler.toggled)
                   => after.dataTheme = SystemTheme(matches)
             /\ themeHandler.toggled => after.dataTheme = themeHandler.dataTheme

\* ---- C36 ----
\* the selector in the record s was destroyed: it is out of the document and
\* has no listener on the document or the window
Destroyed(s) ==
    ~s.attached /\ s.docMoveListeners = << >> /\ ~s.docMouseUp /\ ~s.winResize

\* C36: whenever the page script has a selector, the selector's enabled flag
\* equals isSelectionMode and the selector is the only live one: every
\* selector it replaced was destroyed.
C36_SelectorFollowsMode ==
    /\ application.videoAreaSelector # "null" =>
          /\ enabled = application.isSelectionMode
          /\ attached /\ ~thrown
    /\ \A i \in 1..Len(application.replaced) : Destroyed(application.replaced[i])
    /\ application.videoAreaSelector = "null" => application.replaced = << >>
\* in selection mode, the selector of a second video replaced the first one
C36_Witness ==
    /\ application.videoAreaSelector # "null"
    /\ application.isSelectionMode /\ enabled /\ overlayDisplay = "block"
    /\ Len(application.replaced) >= 1

\* ---- C35 ----
\* C35: when the user chooses the template at index i for editing, deletes
\* the template at another index j and then saves the form, the save replaces
\* the chosen template, at the place the deletion left it, changes no other
\* template and not the number of templates; a save outside edit mode appends
\* one template and changes no other.
C35_SaveReplacesChosen ==
    (templateManager.constructed /\ templateManager.editIndex = << >>) =>
       \A nm \in TemplateNames, ct \in TemplateContents :
          LET typed(m) == [m EXCEPT !.nameInput = nm, !.contentInput = ct]
          IN /\ handleSaveTemplate(typed(templateManager)).templates
                   = Append(templateManager.templates, Template(nm, ct))
             /\ \A i \in templateManager.listed, j \in templateManager.listed :
                   LET chosen == handleEditClick(templateManager, i)
                       deleted == handleDeleteClick(chosen, j)
                       saved == handleSaveTemplate(typed(deleted))
                       place == IF j < i THEN i ELSE i + 1
                   IN i # j =>
                         saved.templates
                            = [deleted.templates EXCEPT ![place] = Template(nm, ct)]

====
